---- MODULE Spec2Model ----
\* Model of webserver/request.rs: parse_request, the low level parser of an
\* HTTP request (request line and headers) into a WebRequest.
\*
\* Bytes are integers 0..255 and byte strings are sequences of them.  One call
\* of parse_request is followed statement by statement: pc is the position in
\* the function body.  A validation gate of the code is an assert or a panic;
\* `gate` names the gate that rejected the request by the error kind the
\* design gives it, and the final pc tells whether the call returned a value
\* to its caller ("returned") or unwound with a panic ("panicked").
EXTENDS Integers, Sequences, FiniteSets, TLC

\* ------------------------------------------------------------------ bytes
SP    == 32  \* ' '
HT    == 9   \* '\t'
CR    == 13  \* '\r'
LF    == 10  \* '\n'
PCT   == 37  \* '%'
STAR  == 42  \* '*'
SLASH == 47  \* '/'
COLON == 58  \* ':'
QMARK == 63  \* '?'
REPLACEMENT == 65533  \* U+FFFD, what from_utf8_lossy puts for invalid bytes

k_method       == <<109, 101, 116, 104, 111, 100>>                           \* "method"
k_protocol     == <<112, 114, 111, 116, 111, 99, 111, 108>>                  \* "protocol"
k_path         == <<112, 97, 116, 104>>                                      \* "path"
k_query_string == <<113, 117, 101, 114, 121, 95, 115, 116, 114, 105, 110, 103>> \* "query_string"
http_prefix    == <<104, 116, 116, 112, 95>>                                 \* "http_"
http10         == <<104, 116, 116, 112, 47, 49, 46, 48>>                     \* "http/1.0"
http11         == <<104, 116, 116, 112, 47, 49, 46, 49>>                     \* "http/1.1"
options        == <<111, 112, 116, 105, 111, 110, 115>>                      \* "options"
asterisk       == <<STAR>>                                                   \* "*"
empty          == <<>>                                                       \* ""

ReservedKeys == {k_method, k_protocol, k_path, k_query_string}

\* ------------------------------------------------- std and byteutils helpers
IsUpper(b) == b >= 65 /\ b <= 90

\* Vec<u8>::into_ascii_lowercase
into_ascii_lowercase(s) ==
    [i \in 1..Len(s) |-> IF IsUpper(s[i]) THEN s[i] + 32 ELSE s[i]]

\* index of the first occurrence of byte sep in bytes, 0 when there is none
FirstIndex(bytes, sep) ==
    IF \E i \in 1..Len(bytes) : bytes[i] = sep
    THEN CHOOSE i \in 1..Len(bytes) :
            bytes[i] = sep /\ \A j \in 1..(i - 1) : bytes[j] # sep
    ELSE 0

\* byteutils::split_bytes_on(bytes, sep, max_splits): at most max_splits + 1
\* slices, split left to right, the last slice holding the rest
RECURSIVE split_bytes_on(_, _, _)
split_bytes_on(bytes, sep, max_splits) ==
    LET i == FirstIndex(bytes, sep)
    IN  IF max_splits = 0 \/ i = 0
        THEN <<bytes>>
        ELSE <<SubSeq(bytes, 1, i - 1)>>
             \o split_bytes_on(SubSeq(bytes, i + 1, Len(bytes)), sep, max_splits - 1)

\* index of the first CR LF pair in bytes, 0 when there is none
FirstCrlf(bytes) ==
    IF \E i \in 1..(Len(bytes) - 1) : bytes[i] = CR /\ bytes[i + 1] = LF
    THEN CHOOSE i \in 1..(Len(bytes) - 1) :
            /\ bytes[i] = CR /\ bytes[i + 1] = LF
            /\ \A j \in 1..(i - 1) : ~(bytes[j] = CR /\ bytes[j + 1] = LF)
    ELSE 0

\* byteutils::split_bytes_on_crlf(bytes): one slice per line, in order; the
\* blank line made by the final CR LF CR LF is the last, empty, slice
RECURSIVE split_bytes_on_crlf(_)
split_bytes_on_crlf(bytes) ==
    LET i == FirstCrlf(bytes)
    IN  IF i = 0
        THEN IF bytes = <<>> THEN <<>> ELSE <<bytes>>
        ELSE <<SubSeq(bytes, 1, i - 1)>>
             \o split_bytes_on_crlf(SubSeq(bytes, i + 2, Len(bytes)))

IsSpace(b) == b \in {SP, HT, LF, CR, 11, 12}

\* byteutils::lstrip(bytes): bytes without its leading whitespace
RECURSIVE lstrip(_)
lstrip(bytes) ==
    IF bytes # <<>> /\ IsSpace(bytes[1]) THEN lstrip(Tail(bytes)) ELSE bytes

IsHex(b) == (b >= 48 /\ b <= 57) \/ (b >= 65 /\ b <= 70) \/ (b >= 97 /\ b <= 102)

HexVal(b) == IF b <= 57 THEN b - 48 ELSE IF b <= 70 THEN b - 55 ELSE b - 87

\* byteutils::percent_decode(bytes): every %XY with hex digits X, Y becomes
\* the byte 16*X + Y; any other byte, a stray '%' included, is copied
RECURSIVE percent_decode(_)
percent_decode(bytes) ==
    IF bytes = <<>> THEN <<>>
    ELSE IF /\ bytes[1] = PCT
            /\ Len(bytes) >= 3
            /\ IsHex(bytes[2])
            /\ IsHex(bytes[3])
         THEN <<16 * HexVal(bytes[2]) + HexVal(bytes[3])>>
              \o percent_decode(SubSeq(bytes, 4, Len(bytes)))
         ELSE <<bytes[1]>> \o percent_decode(Tail(bytes))

IsCont(b) == b >= 128 /\ b <= 191

\* String::from_utf8_lossy(bytes) as a sequence of code points: well formed
\* UTF-8 sequences decode, every maximal ill formed part becomes U+FFFD
RECURSIVE from_utf8_lossy(_)
from_utf8_lossy(bs) ==
    IF bs = <<>> THEN <<>>
    ELSE
      LET n  == Len(bs)
          b0 == bs[1]
          lo == IF b0 = 224 THEN 160 ELSE IF b0 = 240 THEN 144 ELSE 128
          hi == IF b0 = 237 THEN 159 ELSE IF b0 = 244 THEN 143 ELSE 191
          need == IF b0 < 128 THEN 0
                  ELSE IF b0 >= 194 /\ b0 <= 223 THEN 1
                  ELSE IF b0 >= 224 /\ b0 <= 239 THEN 2
                  ELSE IF b0 >= 240 /\ b0 <= 244 THEN 3
                  ELSE 4
          ok2 == n >= 2 /\ bs[2] >= lo /\ bs[2] <= hi
          ok3 == ok2 /\ n >= 3 /\ IsCont(bs[3])
          ok4 == ok3 /\ n >= 4 /\ IsCont(bs[4])
          rest(k) == from_utf8_lossy(SubSeq(bs, k + 1, n))
      IN  IF need = 0 THEN <<b0>> \o rest(1)
          ELSE IF need = 4 THEN <<REPLACEMENT>> \o rest(1)
          ELSE IF ~ok2 THEN <<REPLACEMENT>> \o rest(1)
          ELSE IF need = 1
               THEN <<(b0 - 192) * 64 + (bs[2] - 128)>> \o rest(2)
          ELSE IF ~ok3 THEN <<REPLACEMENT>> \o rest(2)
          ELSE IF need = 2
               THEN <<(b0 - 224) * 4096 + (bs[2] - 128) * 64 + (bs[3] - 128)>>
                    \o rest(3)
          ELSE IF ~ok4 THEN <<REPLACEMENT>> \o rest(3)
          ELSE <<(b0 - 240) * 262144 + (bs[2] - 128) * 4096
                   + (bs[3] - 128) * 64 + (bs[4] - 128)>> \o rest(4)

\* HashMap::insert(key, value): the value stored under key is replaced
insert(map, key, value) ==
    [k \in DOMAIN map \cup {key} |-> IF k = key THEN value ELSE map[k]]

\* HashMap::new()
EmptyMap == [k \in {} |-> <<>>]

\* ------------------------------------------------ statements of parse_request
\* the split of line 50 without its limit of 2 splits
RequestParts_Unbounded(request_line) ==
    split_bytes_on(request_line, SP, Len(request_line))

\* line 50: the request line is split on ' ' with at most 2 splits
RequestParts(request_line) == split_bytes_on(request_line, SP, 2)

\* line 57 looking at the "http/" prefix only
ProtocolKnown_AnyHttp(proto) ==
    Len(proto) >= 5 /\ SubSeq(proto, 1, 5) = <<104, 116, 116, 112, 47>>

\* line 57: the protocols the parser knows, compared after lowercasing
ProtocolKnown(proto) == proto = http10 \/ proto = http11

\* line 66 without the test of the method
IsAsteriskForm_AnyMethod(meth, target) == target = asterisk

\* line 66: the asterisk form, a server wide OPTIONS request
IsAsteriskForm(meth, target) == meth = options /\ target = asterisk

\* lines 73-80 with the target percent decoded before it is split
TargetFields_DecodeFirst(target) ==
    LET parts == split_bytes_on(percent_decode(target), QMARK, 1)
    IN  IF Len(parts) > 1
        THEN [path |-> parts[1], query_string |-> parts[2]]
        ELSE [path |-> target, query_string |-> empty]

\* lines 73-80 with a split at every '?'
TargetFields_EverySplit(target) ==
    LET parts == split_bytes_on(target, QMARK, Len(target))
    IN  IF Len(parts) > 1
        THEN [path |-> parts[1], query_string |-> parts[2]]
        ELSE [path |-> target, query_string |-> empty]

\* lines 73-80: path and query_string of an origin form target
TargetFields(target) ==
    LET parts == split_bytes_on(target, QMARK, 1)
    IN  IF Len(parts) > 1
        THEN [path |-> parts[1], query_string |-> parts[2]]
        ELSE [path |-> target, query_string |-> empty]

\* lines 84-86: the percent decoded and utf8 (lossy) decoded path
DecodedPath(env) == from_utf8_lossy(percent_decode(env[k_path]))

\* line 96: "Header: Value" is split on ':' with at most 1 split
HeaderParts(line) == split_bytes_on(line, COLON, 1)

\* lines 101-104 without the "http_" prefix
HeaderName_NoPrefix(header_parts) == into_ascii_lowercase(header_parts[1])

\* lines 101-104: "http_" followed by the name, all lowercased
HeaderName(header_parts) == into_ascii_lowercase(http_prefix \o header_parts[1])

\* line 107 stripping the whitespace of both ends
HeaderValue_Trim(header_parts) ==
    LET v == lstrip(header_parts[2])
        keep == { i \in 1..Len(v) : ~IsSpace(v[i]) }
    IN  IF keep = {} THEN <<>>
        ELSE SubSeq(v, 1, CHOOSE i \in keep : \A j \in keep : j <= i)

\* line 107: the value without its leading whitespace
HeaderValue(header_parts) == lstrip(header_parts[2])

\* line 109 keeping the value already stored under the key
InsertHeader_KeepFirst(env, header_parts) ==
    IF HeaderName(header_parts) \in DOMAIN env
    THEN env
    ELSE insert(env, HeaderName(header_parts), HeaderValue(header_parts))

\* line 109: the header is stored in environ
InsertHeader(env, header_parts) ==
    insert(env, HeaderName(header_parts), HeaderValue(header_parts))

\* ------------------------------------------------------------------ inputs
MaxHeaderLines == 2   \* lines between the request line and the final blank line

CRLF == <<CR, LF>>

Methods ==
    { <<71, 69, 84>>,                       \* "GET"
      <<79, 80, 84, 73, 79, 78, 83>>,       \* "OPTIONS"
      <<111, 80, 116, 73, 111, 78, 115>> }  \* "oPtIoNs"

Targets ==
    { <<47>>,                                      \* "/"
      <<42>>,                                      \* "*"
      <<102, 111, 111>>,                           \* "foo"
      <<>>,                                        \* ""
      <<47, 97, 63, 98, 61, 49, 63, 99, 61, 50>>,  \* "/a?b=1?c=2"
      <<47, 97, 37, 51, 70, 98>>,                  \* "/a%3Fb"
      <<47, 102, 111, 111, 37, 50, 48, 98, 97, 114>>, \* "/foo%20bar"
      <<47, 37, 67, 51, 37, 65, 57, 37, 70, 70>>,  \* "/%C3%A9%FF"
      <<47, 97, 63>>,                              \* "/a?"
      <<42, 63, 120>> }                            \* "*?x"

Protocols ==
    { <<72, 84, 84, 80, 47, 49, 46, 48>>,          \* "HTTP/1.0"
      <<104, 116, 116, 112, 47, 49, 46, 49>>,      \* "http/1.1"
      <<72, 84, 84, 80, 47, 57, 46, 57>>,          \* "HTTP/9.9"
      <<72, 116, 116, 112, 47, 49, 46, 49, 32, 101, 120, 116, 114, 97>> } \* "Http/1.1 extra"

RequestLines ==
    { m \o <<SP>> \o t \o <<SP>> \o p : m \in Methods, t \in Targets, p \in Protocols }
    \cup { <<66, 65, 68, 76, 73, 78, 69>>,         \* "BADLINE"
           <<71, 69, 84, 32, 47>> }                \* "GET /"

HeaderLines ==
    { <<>>,                                                 \* "" (a blank line)
      <<70, 111, 111, 58, 32, 66, 97, 114>>,                \* "Foo: Bar"
      <<70, 79, 79, 58, 98, 97, 122>>,                      \* "FOO:baz"
      <<72, 111, 115, 116, 58, 32, 97, 58, 56, 48, 32>>,    \* "Host: a:80 "
      <<109, 101, 116, 104, 111, 100, 58, 32, 120>>,        \* "method: x"
      <<66, 97, 100, 72, 101, 97, 100, 101, 114>>,          \* "BadHeader"
      <<65, 32, 66, 32, 67, 58, 32, 68, 32, 69, 32, 70>>,   \* "A B C: D E F"
      <<112, 97, 116, 104, 58, 9, 32, 47, 112>> }           \* "path:\t /p"

RECURSIVE JoinCrlf(_)
JoinCrlf(ls) == IF ls = <<>> THEN <<>> ELSE ls[1] \o CRLF \o JoinCrlf(Tail(ls))

\* the buffers handed to parse_request: a request line, header lines and the
\* final blank line, every line ended by CR LF ("Must end with \r\n\r\n")
Requests ==
    { JoinCrlf(<<r>> \o hs \o <<empty>>) :
        r \in RequestLines,
        hs \in UNION { [1..n -> HeaderLines] : n \in 0..MaxHeaderLines } }

\* ------------------------------------------------------------------- state
VARIABLES
    request_bytes,      \* the argument of parse_request
    pc,                 \* position in parse_request
    lines,              \* line 47
    method,             \* line 53
    path,               \* line 54, the request target
    protocol,           \* line 55
    environ,            \* line 61
    path_decoded_utf8,  \* line 85
    next_line,          \* the line the loop of line 89 looks at next
    gate,               \* the validation gate that rejected the request
    result              \* the WebRequest returned at line 112

vars == <<request_bytes, pc, lines, method, path, protocol, environ,
          path_decoded_utf8, next_line, gate, result>>

NoGate == "none"
NoResult == [returned |-> FALSE]

Init ==
    /\ request_bytes \in Requests
    /\ pc = "split_lines"
    /\ lines = <<>>
    /\ method = <<>>
    /\ path = <<>>
    /\ protocol = <<>>
    /\ environ = EmptyMap
    /\ path_decoded_utf8 = <<>>
    /\ next_line = 0
    /\ gate = NoGate
    /\ result = NoResult

\* a gate fires: the call unwinds, nothing is returned
Panic(kind) ==
    /\ pc' = "panicked"
    /\ gate' = kind
    /\ UNCHANGED <<request_bytes, lines, method, path, protocol, environ,
                   path_decoded_utf8, next_line, result>>

\* line 47
SplitLines ==
    /\ pc = "split_lines"
    /\ lines' = split_bytes_on_crlf(request_bytes)
    /\ pc' = "request_line"
    /\ UNCHANGED <<request_bytes, method, path, protocol, environ,
                   path_decoded_utf8, next_line, gate, result>>

\* lines 49-55, the assertion of line 51 holding
ParseRequestLine ==
    /\ pc = "request_line"
    /\ Len(lines) >= 1
    /\ LET request_parts == RequestParts(lines[1])
       IN  /\ Len(request_parts) = 3
           /\ method' = into_ascii_lowercase(request_parts[1])
           /\ path' = request_parts[2]
           /\ protocol' = into_ascii_lowercase(request_parts[3])
    /\ pc' = "protocol"
    /\ UNCHANGED <<request_bytes, lines, environ, path_decoded_utf8,
                   next_line, gate, result>>

\* line 51: assert_eq!(request_parts.len(), 3) fails
RequestLineAssertFails ==
    /\ pc = "request_line"
    /\ Len(lines) >= 1
    /\ Len(RequestParts(lines[1])) # 3
    /\ Panic("MalformedRequestLine")

\* lines 57-63, the protocol being known
CheckProtocol ==
    /\ pc = "protocol"
    /\ ProtocolKnown(protocol)
    /\ environ' = insert(insert(EmptyMap, k_method, method), k_protocol, protocol)
    /\ pc' = "target"
    /\ UNCHANGED <<request_bytes, lines, method, path, protocol,
                   path_decoded_utf8, next_line, gate, result>>

\* line 58: panic!("unknown protocol")
UnknownProtocolPanics ==
    /\ pc = "protocol"
    /\ ~ProtocolKnown(protocol)
    /\ Panic("UnsupportedProtocolVersion")

\* lines 65-68: the asterisk form
ResolveAsterisk ==
    /\ pc = "target"
    /\ Len(path) > 0
    /\ IsAsteriskForm(method, path)
    /\ environ' = insert(insert(environ, k_path, path), k_query_string, empty)
    /\ pc' = "decode"
    /\ UNCHANGED <<request_bytes, lines, method, path, protocol,
                   path_decoded_utf8, next_line, gate, result>>

\* lines 65, 69-80: the origin form
ResolveOrigin ==
    /\ pc = "target"
    /\ Len(path) > 0
    /\ ~IsAsteriskForm(method, path)
    /\ path[1] = SLASH
    /\ LET f == TargetFields(path)
       IN  environ' = insert(insert(environ, k_path, f.path),
                             k_query_string, f.query_string)
    /\ pc' = "decode"
    /\ UNCHANGED <<request_bytes, lines, method, path, protocol,
                   path_decoded_utf8, next_line, gate, result>>

\* line 65: assert!(path.len() > 0) fails
EmptyTargetAssertFails ==
    /\ pc = "target"
    /\ Len(path) = 0
    /\ Panic("MissingLeadingSlash")

\* line 71: panic!("absolute path required")
RelativeTargetPanics ==
    /\ pc = "target"
    /\ Len(path) > 0
    /\ ~IsAsteriskForm(method, path)
    /\ path[1] # SLASH
    /\ Panic("MissingLeadingSlash")

\* lines 84-86
DecodePath ==
    /\ pc = "decode"
    /\ path_decoded_utf8' = DecodedPath(environ)
    /\ next_line' = 2
    /\ pc' = "headers"
    /\ UNCHANGED <<request_bytes, lines, method, path, protocol, environ,
                   gate, result>>

\* lines 89-93: an empty line is passed over
SkipEmptyLine ==
    /\ pc = "headers"
    /\ next_line <= Len(lines)
    /\ Len(lines[next_line]) = 0
    /\ next_line' = next_line + 1
    /\ UNCHANGED <<request_bytes, pc, lines, method, path, protocol, environ,
                   path_decoded_utf8, gate, result>>

\* lines 89, 95-109: a header line is stored
ProcessHeader ==
    /\ pc = "headers"
    /\ next_line <= Len(lines)
    /\ Len(lines[next_line]) # 0
    /\ LET header_parts == HeaderParts(lines[next_line])
       IN  /\ Len(header_parts) = 2
           /\ environ' = InsertHeader(environ, header_parts)
    /\ next_line' = next_line + 1
    /\ UNCHANGED <<request_bytes, pc, lines, method, path, protocol,
                   path_decoded_utf8, gate, result>>

\* line 98: panic!("invalid header")
InvalidHeaderPanics ==
    /\ pc = "headers"
    /\ next_line <= Len(lines)
    /\ Len(lines[next_line]) # 0
    /\ Len(HeaderParts(lines[next_line])) # 2
    /\ Panic("MalformedHeaderLine")

\* lines 112-115
Return ==
    /\ pc = "headers"
    /\ next_line > Len(lines)
    /\ result' = [returned |-> TRUE, environ |-> environ, path |-> path_decoded_utf8]
    /\ pc' = "returned"
    /\ UNCHANGED <<request_bytes, lines, method, path, protocol, environ,
                   path_decoded_utf8, next_line, gate>>

Next ==
    \/ SplitLines
    \/ ParseRequestLine
    \/ RequestLineAssertFails
    \/ CheckProtocol
    \/ UnknownProtocolPanics
    \/ ResolveAsterisk
    \/ ResolveOrigin
    \/ EmptyTargetAssertFails
    \/ RelativeTargetPanics
    \/ DecodePath
    \/ SkipEmptyLine
    \/ ProcessHeader
    \/ InvalidHeaderPanics
    \/ Return

Spec == Init /\ [][Next]_vars

TypeOK ==
    /\ pc \in {"split_lines", "request_line", "protocol", "target", "decode",
               "headers", "returned", "panicked"}
    /\ gate \in {NoGate, "MalformedRequestLine", "UnsupportedProtocolVersion",
                 "MissingLeadingSlash", "MalformedHeaderLine"}

\* ------------------------------------------------------------ properties
Returned == pc = "returned"
Panicked == pc = "panicked"
Terminal == Returned \/ Panicked

Bytes(s) == { s[i] : i \in 1..Len(s) }
HasPrefix(s, pre) == Len(s) >= Len(pre) /\ SubSeq(s, 1, Len(pre)) = pre
NoUpper(s) == \A i \in 1..Len(s) : ~IsUpper(s[i])

\* number of space separated tokens of a line
NumTokens(line) == 1 + Cardinality({ i \in 1..Len(line) : line[i] = SP })

\* the bytes of s before, and after, its first byte b
Before(s, b) == SubSeq(s, 1, FirstIndex(s, b) - 1)
After(s, b)  == SubSeq(s, FirstIndex(s, b) + 1, Len(s))

\* the lines of the buffer that the header loop stores: non-empty, after line 0
HeaderIndexes == { i \in 2..Len(lines) : lines[i] # <<>> }
KeyOf(line) == http_prefix \o into_ascii_lowercase(Before(line, COLON))

\* v is raw with leading whitespace, and nothing else, removed
IsLeftStripOf(v, raw) ==
    \E k \in 0..Len(raw) :
        /\ v = SubSeq(raw, k + 1, Len(raw))
        /\ \A j \in 1..k : IsSpace(raw[j])
        /\ (v = <<>> \/ ~IsSpace(v[1]))

\* C1: every call of parse hands its caller a value, a ParsedRequest or a
\* tagged error: no validation gate ends the call by aborting (unwinding).
C1_NoGateAborts == ~Panicked

\* C2: a request line that does not have exactly 3 space separated tokens,
\* fewer or more, fails with MalformedRequestLine and with nothing else.
C2_WrongTokenCountIsMalformedRequestLine ==
    (Terminal /\ NumTokens(lines[1]) # 3)
        => (Panicked /\ gate = "MalformedRequestLine")

\* C2 (amended): a request line with fewer than 3 tokens fails with
\* MalformedRequestLine and only such a line does; a request line with more
\* than 3 tokens fails with UnsupportedProtocolVersion, its third part holding
\* everything after the second space.
C2_FewerIsMalformedMoreIsUnsupported ==
    Terminal =>
        /\ (NumTokens(lines[1]) < 3) <=> (gate = "MalformedRequestLine")
        /\ (NumTokens(lines[1]) > 3) =>
               /\ Panicked
               /\ gate = "UnsupportedProtocolVersion"
               /\ SP \in Bytes(protocol)

C2_Witness ==
    Panicked /\ NumTokens(lines[1]) > 3 /\ gate = "UnsupportedProtocolVersion"

\* C3: after a successful parse, environ["path"] is the request target up to
\* its first '?', percent escapes untouched, and the decoded path is the lossy
\* UTF-8 decoding of the percent decoding of exactly those bytes; a target
\* without a literal '?' has an empty query_string whatever escapes it holds.
C3_DecodedPathFromRawPath ==
    Returned =>
        /\ result.environ[k_path] =
              (IF QMARK \in Bytes(path) THEN Before(path, QMARK) ELSE path)
        /\ result.path = from_utf8_lossy(percent_decode(result.environ[k_path]))
        /\ (QMARK \notin Bytes(path)) => result.environ[k_query_string] = empty
        /\ (path = <<47, 97, 37, 51, 70, 98>>) =>              \* "/a%3Fb"
              /\ result.environ[k_path] = path
              /\ result.path = <<47, 97, 63, 98>>               \* "/a?b"
        /\ (path = <<47, 102, 111, 111, 37, 50, 48, 98, 97, 114>>) => \* "/foo%20bar"
              /\ result.environ[k_path] = path
              /\ result.path = <<47, 102, 111, 111, 32, 98, 97, 114>> \* "/foo bar"
        /\ (path = <<47, 37, 67, 51, 37, 65, 57, 37, 70, 70>>) => \* "/%C3%A9%FF"
              result.path = <<47, 233, REPLACEMENT>>

C3_Witness ==
    /\ Returned
    /\ path = <<47, 97, 37, 51, 70, 98>>
    /\ result.path = <<47, 97, 63, 98>>

\* C4: a returned request has the keys method, protocol, path and
\* query_string; its method has no uppercase letter and is the first token
\* lowercased; its protocol is "http/1.0" or "http/1.1"; a request line of 3
\* parts whose third part, lowercased, is neither fails with
\* UnsupportedProtocolVersion.
C4_ReservedKeysAndProtocol ==
    /\ Returned =>
        /\ ReservedKeys \subseteq DOMAIN result.environ
        /\ NoUpper(result.environ[k_method])
        /\ result.environ[k_method] = into_ascii_lowercase(Before(lines[1], SP))
        /\ result.environ[k_protocol] \in {http10, http11}
    /\ (Terminal /\ gate # "MalformedRequestLine") =>
        ((protocol \notin {http10, http11}) <=> (gate = "UnsupportedProtocolVersion"))

C4_Witness ==
    /\ Returned
    /\ result.environ[k_method] = options
    /\ \E i \in 1..Len(Before(lines[1], SP)) : IsUpper(lines[1][i])
    /\ result.environ[k_protocol] = http10

\* C5: in a returned request every key other than the four reserved ones
\* begins with "http_" and has no uppercase letter, and the reserved keys
\* still hold the values of the request line whatever the header names are.
C5_HeaderKeysPrefixed ==
    Returned =>
        /\ \A k \in (DOMAIN result.environ) \ ReservedKeys :
              HasPrefix(k, http_prefix) /\ NoUpper(k)
        /\ ReservedKeys \subseteq DOMAIN result.environ
        /\ result.environ[k_method] = method
        /\ result.environ[k_protocol] = protocol
        /\ result.environ[k_path] \o
              (IF QMARK \in Bytes(path) THEN <<QMARK>> ELSE <<>>) \o
              result.environ[k_query_string] = path

C5_Witness ==
    /\ Returned
    /\ (http_prefix \o k_method) \in DOMAIN result.environ
    /\ (http_prefix \o k_path) \in DOMAIN result.environ

\* C6: an origin form target is split at its first '?' only: with a '?' in
\* it, path ++ "?" ++ query_string is the target and path has no '?'; without
\* one, path is the whole target and query_string is empty.
C6_SplitAtFirstQuestionMark ==
    (Returned /\ ~IsAsteriskForm(method, path)) =>
        IF QMARK \in Bytes(path)
        THEN /\ result.environ[k_path] \o <<QMARK>> \o result.environ[k_query_string] = path
             /\ QMARK \notin Bytes(result.environ[k_path])
        ELSE /\ result.environ[k_path] = path
             /\ result.environ[k_query_string] = empty

C6_Witness ==
    /\ Returned
    /\ path = <<47, 97, 63, 98, 61, 49, 63, 99, 61, 50>>            \* "/a?b=1?c=2"
    /\ result.environ[k_path] = <<47, 97>>                          \* "/a"
    /\ result.environ[k_query_string] = <<98, 61, 49, 63, 99, 61, 50>> \* "b=1?c=2"

\* C7: in a returned request path starts with '/' unless it is exactly "*",
\* and "*" comes only with method "options" and an empty query_string; once
\* the request line and protocol are accepted, a target "*" with another
\* method and any target not starting with '/', the empty one included, fail
\* with MissingLeadingSlash, and nothing else does.
C7_LeadingSlashOrAsterisk ==
    /\ Returned =>
        /\ result.environ[k_path] # <<>>
        /\ result.environ[k_path][1] = SLASH \/ result.environ[k_path] = asterisk
        /\ (result.environ[k_path] = asterisk) =>
              /\ result.environ[k_method] = options
              /\ result.environ[k_query_string] = empty
    /\ (Terminal /\ gate \notin {"MalformedRequestLine", "UnsupportedProtocolVersion"}) =>
        ((gate = "MissingLeadingSlash") <=>
            \/ path = <<>>
            \/ (path = asterisk /\ method # options)
            \/ (path # asterisk /\ path[1] # SLASH))

C7_Witness ==
    /\ Returned
    /\ result.environ[k_path] = asterisk
    /\ Before(lines[1], SP) = <<111, 80, 116, 73, 111, 78, 115>>    \* "oPtIoNs"

\* C8: every header key of a returned request comes from a header line whose
\* bytes before its first ':' are the name, and the value stored is the bytes
\* after that ':' with leading whitespace, and nothing else, removed.
C8_HeaderValueLeftStripped ==
    Returned =>
        /\ \A k \in (DOMAIN result.environ) \ ReservedKeys :
              \E i \in HeaderIndexes :
                  /\ KeyOf(lines[i]) = k
                  /\ IsLeftStripOf(result.environ[k], After(lines[i], COLON))
        /\ \A i \in HeaderIndexes : KeyOf(lines[i]) \in DOMAIN result.environ
        /\ (\E i \in HeaderIndexes :
              lines[i] = <<72, 111, 115, 116, 58, 32, 97, 58, 56, 48, 32>>) => \* "Host: a:80 "
              result.environ[<<104, 116, 116, 112, 95, 104, 111, 115, 116>>]  \* "http_host"
                  = <<97, 58, 56, 48, 32>>                                    \* "a:80 "

C8_Witness ==
    /\ Returned
    /\ <<104, 116, 116, 112, 95, 104, 111, 115, 116>> \in DOMAIN result.environ
    /\ result.environ[<<104, 116, 116, 112, 95, 104, 111, 115, 116>>] = <<97, 58, 56, 48, 32>>

\* C9: when several header lines have the same key (names equal up to ASCII
\* case), the value stored is that of the last such line of the buffer.
C9_LastHeaderWins ==
    Returned =>
        \A i \in HeaderIndexes :
            (\A j \in HeaderIndexes : j > i => KeyOf(lines[j]) # KeyOf(lines[i]))
                => result.environ[KeyOf(lines[i])] = lstrip(After(lines[i], COLON))

C9_Witness ==
    /\ Returned
    /\ \E i, j \in HeaderIndexes :
          /\ i < j
          /\ KeyOf(lines[i]) = KeyOf(lines[j])
          /\ Before(lines[i], COLON) # Before(lines[j], COLON)
          /\ lstrip(After(lines[i], COLON)) # lstrip(After(lines[j], COLON))
          /\ result.environ[KeyOf(lines[j])] = lstrip(After(lines[j], COLON))

\* C10: of the lines after the request line only the final blank line is
\* passed over; any other line, an empty one before the end included, must
\* hold a ':' or the parse fails with MalformedHeaderLine.
C10_InteriorBlankLineRejected ==
    Returned =>
        \A i \in 2..(Len(lines) - 1) : COLON \in Bytes(lines[i])

====
